---- MODULE Spec2Model ----
(***************************************************************************)
(* OpenBDR: the IndexedDB logger (src/lib/logger.js) and the native        *)
(* messaging logger (NativeLogger, src/unnamed/part_002) as state machines.*)
(* The two loggers share no state: the actions of one leave the variables  *)
(* of the other unchanged, and each has its own specifications.            *)
(*                                                                         *)
(* The host is a single-threaded event loop.  An async method runs without *)
(* interruption from one await to the next, so every action below is one   *)
(* such run: it starts where a promise the method awaits settles and ends  *)
(* at the next await (or at the method's return).                          *)
(*                                                                         *)
(* IndexedDB transactions on the 'events' object store are kept in txq in  *)
(* creation order.  A read/write transaction runs only when every          *)
(* transaction created before it has finished; a read-only one only when   *)
(* no read/write transaction created before it is still pending.  The      *)
(* completion callback of a transaction runs in the same action as the     *)
(* transaction's effect: completion events are delivered in the order in   *)
(* which the transactions ran and the awaiting method resumes in the       *)
(* microtask that follows the callback, so no other callback can observe   *)
(* the store between the two.                                              *)
(***************************************************************************)
EXTENDS Integers, Sequences, FiniteSets, TLC

\* ------------------------------------------------------------------ bounds
NumTasks == 2      \* concurrent invocations (event-loop tasks) of the logger
MaxClock == 1      \* the clock takes the hours 0..MaxClock after the base hour
MaxEvents == 2     \* events of one run: the persisted one and the log() calls
MaxFlushes == 2    \* flushToFile() calls by the alarm or FLUSH_NOW in one run
MaxConnects == 2   \* connectNative() calls of one NativeLogger
MaxNativeLogs == 2 \* NativeLogger.log() calls of one run with a responding host
MaxReconnects == 5 \* connectNative() calls of a NativeLogger that only reconnects
MaxSessionEnds == 1   \* NativeLogger.sendSessionEnd() calls of one run
MaxFlushBuffers == 1  \* NativeLogger.flushBuffer() calls made on their own
MaxGetStats == 2      \* NativeLogger.getStats() calls of one run
OfflineCalls == 1500  \* NativeLogger.log() calls of one run that never connects
TimeoutCalls == 1001  \* NativeLogger.log() calls of one run with a silent host
MaxMs == 1         \* Date.now() takes the values 0..MaxMs in the keyed store
MaxSuffix == 1     \* Math.random() gives the suffixes 0..MaxSuffix of an eventId
MaxKeyedLogs == 3  \* log() calls on the keyed store

\* --------------------------------------------------------------- constants
\* FLUSH_THRESHOLD_BYTES is 50 MiB in the source; sizes are counted here in
\* units of 25 MiB, so the threshold is 2 units.
FLUSH_THRESHOLD_BYTES == 2
DEFAULT_OUTPUT_DIR == "openbdr_logs"
NULL == "null"
\* NativeLogger (src/unnamed/part_002)
maxReconnectAttempts == 3
BufferLimit == 1000    \* log(): the length above which the buffer is cut
BufferKeep == 500      \* log(): the number of newest events the cut keeps

Procs == 1..NumTasks
Clock == 0..MaxClock
EventTypes == {"tab.created", "navigation.completed"}

VARIABLES
    now,                \* the wall clock, in hours after 2024-01-15T23:00 local
    db,                 \* this.db: NULL or "open"
    initialized,        \* this.initialized
    config,             \* this.config
    currentBufferSize,  \* this.currentBufferSize
    eventTypeCounts,    \* this.eventTypeCounts (a missing key is 0)
    events,             \* object store 'events' of the database (keyPath eventId)
    configStore,        \* object store 'config': {} or {the saved config}
    alarm,              \* the alarm 'openbdr_hourly_flush' exists
    task,               \* task[p]: the invocation running in slot p
    txq,                \* pending transactions on 'events', in creation order
    logCalls,           \* number of events logged so far, the persisted one included
    flushCalls,         \* number of alarm / FLUSH_NOW flushes made so far
    okFiles,            \* filenames of the downloads that succeeded so far
    okCount,            \* flushes that returned a filename since currentPartition was last set
    lastClear,          \* the error the last clear() rejected with; "none" when it
                        \* resolved, before the first clear() and after a later call
    lastSetAutoFlush,   \* the argument of the last setAutoFlush() call, once the call
                        \* has completed: "true" or "false"; "pending" while a call
                        \* is running, "none" before the first call
    lastFlush,          \* how the last flushToFile() ended: "filename", "null", or the
                        \* error it rejected with; "none" before the first flush and
                        \* after a later log() call
    \* --- NativeLogger (src/unnamed/part_002) and its native messaging host
    port,               \* this.port: 0 (null) or the number of the port object
    connected,          \* this.connected
    eventBuffer,        \* this.eventBuffer: the buffered events, oldest first
    messageId,          \* this.messageId
    callbacks,          \* this.callbacks: _id -> the request its callback settles
    reconnectAttempts,  \* this.reconnectAttempts
    reqs,               \* the sendMessage() promises that are pending, by request number
    sent,               \* number of requests posted so far
    inbox,              \* responses of the host that are on their way to the listener
    hostOpen,           \* ports whose host end is open
    live,               \* ports on which onDisconnect has not fired
    connects,           \* connectNative() calls made so far
    reconnectTimers,    \* connect() calls scheduled by setTimeout and not yet run
    nlogCalls,          \* number of NativeLogger.log() calls made so far
    timedOut,           \* _ids of the LOG_EVENT requests whose timeout has fired
    staleEvents,        \* the events that have been in eventBuffer since the last PING
                        \* handshake succeeded and were not sent in a LOG_BATCH
    rejected,           \* the methods of which a returned promise has rejected
    scheduled,          \* delays of the reconnects scheduled since the last handshake
    sessionEnds,        \* number of sendSessionEnd() calls made so far
    flushBuffers,       \* number of flushBuffer() calls made on their own so far
    statusConnected,    \* this.status.connected
    lastStats,          \* {the connected field of the stats the last getStats()
                        \* returned}; empty before the first return
    getStatsCalls,      \* number of getStats() calls made so far
    \* --- the 'events' object store with the keys generateEventId() makes
    msNow,              \* Date.now()
    objectStore,        \* the records of the object store (keyPath eventId)
    appended,           \* the stored events in the order in which they were added
    storeSize,          \* this.currentBufferSize
    storeCounts,        \* this.eventTypeCounts
    lastAdd             \* how the last log() ended: "ok", or the error of its add

loggerVars == <<now, db, initialized, config, currentBufferSize, eventTypeCounts, events,
                configStore, alarm, task, txq, logCalls, flushCalls, okFiles, okCount,
                lastFlush, lastClear, lastSetAutoFlush>>
nativeVars == <<port, connected, eventBuffer, messageId, callbacks, reconnectAttempts, reqs,
                sent, inbox, hostOpen, live, connects, reconnectTimers, nlogCalls,
                timedOut, staleEvents, rejected, scheduled, sessionEnds, flushBuffers,
                statusConnected, lastStats, getStatsCalls>>
statsVars == <<statusConnected, lastStats, getStatsCalls>>
storeVars == <<msNow, objectStore, appended, storeSize, storeCounts, lastAdd>>
vars == <<loggerVars, nativeVars, storeVars>>

\* ---------------------------------------------------------- pure functions
Digit == <<"0", "1", "2", "3", "4", "5", "6", "7", "8", "9">>

\* String(n) of JavaScript for a natural number
RECURSIVE String(_)
String(n) == IF n < 10 THEN Digit[n + 1] ELSE String(n \div 10) \o Digit[(n % 10) + 1]

\* s.padStart(targetLength, fill) for a one-character fill
RECURSIVE padStart(_, _, _)
padStart(s, targetLength, fill) ==
    IF Len(s) >= targetLength THEN s ELSE padStart(fill \o s, targetLength, fill)

\* new Date() at clock value t: the base instant is 2024-01-15T23:00
getFullYear(t) == 2024
getMonth(t) == 0
getDate(t) == 15 + ((23 + t) \div 24)
getHours(t) == (23 + t) % 24

getPartitionPath(t) ==
    "year=" \o String(getFullYear(t))
        \o "/month=" \o padStart(String(getMonth(t) + 1), 2, "0")
        \o "/day=" \o padStart(String(getDate(t)), 2, "0")
        \o "/hour=" \o padStart(String(getHours(t)), 2, "0")

getPartitionKey(t) ==
    String(getFullYear(t)) \o "-" \o padStart(String(getMonth(t) + 1), 2, "0")
        \o "-" \o padStart(String(getDate(t)), 2, "0")
        \o "-" \o padStart(String(getHours(t)), 2, "0")

\* the filename getFilename() builds from a directory, a partition path and a sequence
FilenameOf(dir, path, seq) ==
    dir \o "/" \o path \o "/events_" \o padStart(String(seq), 3, "0") \o ".jsonl"

getFilename(cfg, t) == FilenameOf(cfg.outputDir, getPartitionPath(t), cfg.fileSequence)

\* JSON.stringify(event).length, in units of 25 MiB: it depends on the payload,
\* which here depends on the event type
SerializedSize(e) == IF e.eventType = "tab.created" THEN 1 ELSE 2

RECURSIVE SumSizes(_)
SumSizes(S) ==
    IF S = {} THEN 0
    ELSE LET e == CHOOSE x \in S : TRUE IN SerializedSize(e) + SumSizes(S \ {e})

\* what the database can hold when the service worker starts: nothing, or an
\* event that an earlier run of the worker logged and did not export
PersistedEvent == [eventId |-> 1, eventType |-> "tab.created"]
PersistedStores == {{}, {PersistedEvent}}

NoCounts == [t \in EventTypes |-> 0]
CountTypes(S) == [t \in EventTypes |-> Cardinality({e \in S : e.eventType = t})]

\* store.getAll(): the records of the store in ascending key (eventId) order
RECURSIVE getAll(_)
getAll(S) ==
    IF S = {} THEN <<>>
    ELSE LET e == CHOOSE x \in S : \A y \in S : x.eventId <= y.eventId
         IN <<e>> \o getAll(S \ {e})

Range(s) == {s[i] : i \in 1..Len(s)}

\* { ...this.config, ...request.result.value }
MergeConfig(cfg, saved) ==
    [k \in DOMAIN cfg |-> IF k \in DOMAIN saved THEN saved[k] ELSE cfg[k]]

\* (a variant that advances the sequence on a rollover instead of resetting it)
checkPartitionChange_Advances(cfg, t) ==
    LET currentKey == getPartitionKey(t) IN
    IF cfg.currentPartition # NULL /\ cfg.currentPartition # currentKey
    THEN [cfg EXCEPT !.fileSequence = cfg.fileSequence + 1, !.currentPartition = currentKey]
    ELSE IF cfg.currentPartition = NULL
         THEN [cfg EXCEPT !.currentPartition = currentKey]
         ELSE cfg

\* checkPartitionChange(): the config it leaves
checkPartitionChange(cfg, t) ==
    LET currentKey == getPartitionKey(t) IN
    IF cfg.currentPartition # NULL /\ cfg.currentPartition # currentKey
    THEN [cfg EXCEPT !.fileSequence = 1, !.currentPartition = currentKey]
    ELSE IF cfg.currentPartition = NULL
         THEN [cfg EXCEPT !.currentPartition = currentKey]
         ELSE cfg

\* saveConfig(): the 'config' store after the put; without a database the
\* TypeError of this.db.transaction is caught and nothing is written
saveConfig(cfg, d, store) == IF d = NULL THEN store ELSE {cfg}

\* ------------------------------------------------------------- task slots
NoEvent == [eventId |-> 0, eventType |-> ""]
\* a call of `top` (log, flush, clear, init) that has not reached its first await
\* (seqIn, seqOut: fileSequence before and after the partition check of a flush;
\* enabled: the argument of a setAutoFlush call)
NewTask(top) ==
    [pc |-> "idle", top |-> top, event |-> NoEvent, loaded |-> {}, snapshot |-> <<>>,
     filename |-> "", seqIn |-> 0, seqOut |-> 0, enabled |-> FALSE]
Idle == NewTask("none")

\* a transaction of p may run: it is read/write and the oldest pending one, or it is
\* read-only and no read/write transaction created before it is pending
ReadOnlyPc == {"init_calc", "fl_getall"}
Position(p) == CHOOSE i \in 1..Len(txq) : txq[i] = p
CanRun(p) ==
    /\ \E i \in 1..Len(txq) : txq[i] = p
    /\ IF task[p].pc \in ReadOnlyPc
       THEN \A i \in 1..(Position(p) - 1) : task[txq[i]].pc \in ReadOnlyPc
       ELSE txq[1] = p
Dequeue(p) == SelectSeq(txq, LAMBDA q : q # p)

FlushPcs == {"fl_getall", "fl_download", "fl_clear", "fl_save"}
InFlush(p) == task[p].pc \in FlushPcs
Quiescent == \A p \in Procs : task[p].pc = "idle"

TypeOK ==
    /\ now \in Clock
    /\ db \in {NULL, "open"}
    /\ initialized \in BOOLEAN
    /\ config.fileSequence \in Nat \ {0}
    /\ currentBufferSize \in Nat
    /\ Cardinality(configStore) <= 1
    /\ alarm \in BOOLEAN
    /\ \A p \in Procs : task[p].pc \in
          {"idle", "init_open", "init_load", "init_calc", "log_add"} \cup FlushPcs
              \cup {"cl_clear", "saf_save"}

\* ------------------------------------------------- the keyed object store
\* generateEventId(): `${Date.now()}-${random}`, as the pair the string is
\* made of; strings of this form compare as the pairs do
generateEventId(ms, r) == <<ms, r>>
KeyLess(a, b) == a[1] < b[1] \/ (a[1] = b[1] /\ a[2] < b[2])

\* store.getAll(): the records in ascending order of their keys
RECURSIVE getAllByKey(_)
getAllByKey(S) ==
    IF S = {} THEN <<>>
    ELSE LET e == CHOOSE x \in S : \A y \in S \ {x} : KeyLess(x.eventId, y.eventId)
         IN <<e>> \o getAllByKey(S \ {e})

\* (a variant that stores like put(): a record with the same key is replaced)
objectStoreAdd_Put(S, e) ==
    [ok |-> TRUE, records |-> {x \in S : x.eventId # e.eventId} \cup {e}]

\* store.add(event): the request fails when a record with the key exists
objectStoreAdd(S, e) ==
    IF \E x \in S : x.eventId = e.eventId
    THEN [ok |-> FALSE, records |-> S]
    ELSE [ok |-> TRUE, records |-> S \cup {e}]

InitStore ==
    /\ msNow = 0
    /\ objectStore = {}
    /\ appended = <<>>
    /\ storeSize = 0
    /\ storeCounts = NoCounts
    /\ lastAdd = "none"

\* ---------------------------------------------------------- NativeLogger
\* a Map: set(k, v) and delete(k)
EmptyMap == [i \in {} |-> 0]
MapSet(f, k, v) == [i \in (DOMAIN f) \cup {k} |-> IF i = k THEN v ELSE f[i]]
MapDelete_Keep(f, k) == f
MapDelete(f, k) == [i \in (DOMAIN f) \ {k} |-> f[i]]

\* the state a new NativeLogger() is in
InitNative ==
    /\ port = 0
    /\ connected = FALSE
    /\ eventBuffer = <<>>
    /\ messageId = 0
    /\ callbacks = EmptyMap
    /\ reconnectAttempts = 0
    /\ reqs = EmptyMap
    /\ sent = 0
    /\ inbox = {}
    /\ hostOpen = {}
    /\ live = {}
    /\ connects = 0
    /\ reconnectTimers = 0
    /\ nlogCalls = 0
    /\ timedOut = {}
    /\ staleEvents = {}
    /\ rejected = {}
    /\ scheduled = <<>>
    /\ sessionEnds = 0
    /\ flushBuffers = 0
    /\ statusConnected = FALSE
    /\ lastStats = {}
    /\ getStatsCalls = 0

Init ==
    /\ now = 0
    /\ db = NULL
    /\ initialized = FALSE
    /\ config = [outputDir |-> DEFAULT_OUTPUT_DIR, autoFlush |-> TRUE,
                 fileSequence |-> 1, currentPartition |-> NULL]
    /\ currentBufferSize = 0
    /\ eventTypeCounts = NoCounts
    /\ events \in PersistedStores
    /\ configStore = {}
    /\ alarm = FALSE
    /\ task = [p \in Procs |-> Idle]
    /\ txq = <<>>
    /\ logCalls = Cardinality(events)
    /\ flushCalls = 0
    /\ okFiles = {}
    /\ okCount = 0
    /\ lastFlush = "none"
    /\ lastClear = "none"
    /\ lastSetAutoFlush = "none"
    /\ InitNative
    /\ InitStore

\* ------------------------------------------------------------ environment
\* the wall clock moves to another hour (forward, or backward on an adjustment)
Tick(h) ==
    /\ h # now
    /\ now' = h
    /\ UNCHANGED <<db, initialized, config, currentBufferSize, eventTypeCounts, events,
                   configStore, alarm, task, txq, logCalls, flushCalls, okFiles, okCount,
                   lastFlush>>
    /\ UNCHANGED lastClear
    /\ UNCHANGED lastSetAutoFlush
    /\ UNCHANGED nativeVars
    /\ UNCHANGED storeVars

\* the call in slot p returns or rejects
Return(p) ==
    /\ task' = [task EXCEPT ![p] = Idle]
    /\ UNCHANGED lastFlush

\* flushToFile() in slot p returns r ("filename", "null") or rejects with the
\* error r; a log() that awaited it returns or rejects in the same run
FlushReturn(p, r) ==
    /\ task' = [task EXCEPT ![p] = Idle]
    /\ lastFlush' = r

\* slot p is the first free slot: a new call takes it
FreeSlot(p) ==
    /\ task[p].pc = "idle"
    /\ \A q \in Procs : q < p => task[q].pc # "idle"

\* ------------------------------------------------------------------ init()
\* init() up to its first await: openDatabase() is requested
InitEntry(p, tk) ==
    task' = [task EXCEPT ![p] = [tk EXCEPT !.pc = "init_open"]]

\* initialize() of the service worker (or any caller) calls logger.init()
StartInit(p) ==
    /\ FreeSlot(p)
    /\ IF initialized
       THEN Return(p)
       ELSE /\ InitEntry(p, NewTask("init"))
            /\ UNCHANGED lastFlush
    /\ UNCHANGED <<now, db, initialized, config, currentBufferSize, eventTypeCounts, events,
                   configStore, alarm, txq, logCalls, flushCalls, okFiles, okCount>>
    /\ lastClear' = "none"
    /\ UNCHANGED lastSetAutoFlush
    /\ UNCHANGED nativeVars
    /\ UNCHANGED storeVars

\* openDatabase() resolved: this.db is set and loadConfig() creates its read
\* transaction, which sees the config record as it is now
InitOpenDone(p) ==
    /\ task[p].pc = "init_open"
    /\ db' = "open"
    /\ task' = [task EXCEPT ![p].pc = "init_load", ![p].loaded = configStore]
    /\ UNCHANGED <<now, initialized, config, currentBufferSize, eventTypeCounts, events,
                   configStore, alarm, txq, logCalls, flushCalls, okFiles, okCount, lastFlush>>
    /\ UNCHANGED lastClear
    /\ UNCHANGED lastSetAutoFlush
    /\ UNCHANGED nativeVars
    /\ UNCHANGED storeVars

\* openDatabase() rejected: init() rethrows, and so does a log() that awaited it
InitOpenFail(p) ==
    /\ task[p].pc = "init_open"
    /\ Return(p)
    /\ UNCHANGED <<now, db, initialized, config, currentBufferSize, eventTypeCounts, events,
                   configStore, alarm, txq, logCalls, flushCalls, okFiles, okCount>>
    /\ UNCHANGED lastClear
    /\ UNCHANGED lastSetAutoFlush
    /\ UNCHANGED nativeVars
    /\ UNCHANGED storeVars

\* loadConfig() resolved: the saved config is merged into this.config;
\* calculateBufferSize() asks for all events
InitLoadDone(p) ==
    /\ task[p].pc = "init_load"
    /\ config' = IF task[p].loaded = {} THEN config
                 ELSE MergeConfig(config, CHOOSE c \in task[p].loaded : TRUE)
    /\ okCount' = IF config'.currentPartition # config.currentPartition THEN 0 ELSE okCount
    /\ task' = [task EXCEPT ![p].pc = "init_calc", ![p].loaded = {}]
    /\ txq' = Append(txq, p)
    /\ UNCHANGED <<now, db, initialized, currentBufferSize, eventTypeCounts, events,
                   configStore, alarm, logCalls, flushCalls, okFiles, lastFlush>>
    /\ UNCHANGED lastClear
    /\ UNCHANGED lastSetAutoFlush
    /\ UNCHANGED nativeVars
    /\ UNCHANGED storeVars

\* currentBufferSize as calculateBufferSize() recomputes it from the events read
calculateBufferSize(S) == SumSizes(S)

\* setupAutoFlush(): the alarm after it
setupAutoFlush(cfg, a) == IF cfg.autoFlush THEN TRUE ELSE a

\* log() from the construction of the event to the await of its add transaction
LogEntry(p, tk, q) ==
    /\ task' = [task EXCEPT ![p] = [tk EXCEPT !.pc = "log_add"]]
    /\ txq' = Append(q, p)

\* getAllEvents() of calculateBufferSize() resolved: the size and the counts are
\* recomputed, the alarm is set up, initialized becomes true; a log() that was
\* awaiting init() goes on to add its event
InitCalcDone(p) ==
    /\ task[p].pc = "init_calc"
    /\ CanRun(p)
    /\ currentBufferSize' = calculateBufferSize(events)
    /\ eventTypeCounts' = CountTypes(events)
    /\ alarm' = setupAutoFlush(config, alarm)
    /\ initialized' = TRUE
    /\ IF task[p].top = "log"
       THEN /\ LogEntry(p, task[p], Dequeue(p))
            /\ UNCHANGED lastFlush
       ELSE /\ Return(p)
            /\ txq' = Dequeue(p)
    /\ UNCHANGED <<now, db, config, events, configStore, logCalls, flushCalls, okFiles,
                   okCount>>
    /\ UNCHANGED lastClear
    /\ UNCHANGED lastSetAutoFlush
    /\ UNCHANGED nativeVars
    /\ UNCHANGED storeVars

\* getAllEvents() of calculateBufferSize() rejected (the request failed): init()
\* rethrows with this.db set and initialized still false, and so does a log()
\* that awaited it
InitCalcFail(p) ==
    /\ task[p].pc = "init_calc"
    /\ CanRun(p)
    /\ txq' = Dequeue(p)
    /\ Return(p)
    /\ UNCHANGED <<now, db, initialized, config, currentBufferSize, eventTypeCounts, events,
                   configStore, alarm, logCalls, flushCalls, okFiles, okCount>>
    /\ UNCHANGED lastClear
    /\ UNCHANGED lastSetAutoFlush
    /\ UNCHANGED nativeVars
    /\ UNCHANGED storeVars

\* ------------------------------------------------------------ flushToFile()
\* flushToFile() up to its first await: the partition check, then getAllEvents();
\* without a database getAllEvents() throws and the flush rejects
FlushEntry(p, tk, q) ==
    LET cfg == checkPartitionChange(config, now) IN
    /\ config' = cfg
    /\ configStore' = IF cfg # config THEN saveConfig(cfg, db, configStore) ELSE configStore
    /\ okCount' = IF cfg.currentPartition # config.currentPartition THEN 0 ELSE okCount
    /\ IF db = NULL
       THEN /\ FlushReturn(p, "TypeError")
            /\ txq' = q
       ELSE /\ task' = [task EXCEPT ![p] = [tk EXCEPT !.pc = "fl_getall",
                                                      !.seqIn = config.fileSequence,
                                                      !.seqOut = cfg.fileSequence]]
            /\ txq' = Append(q, p)
            /\ UNCHANGED lastFlush

\* the hourly alarm fires, or the popup sends FLUSH_NOW
StartFlush(p, reason) ==
    /\ FreeSlot(p)
    /\ flushCalls < MaxFlushes
    /\ reason = "hourly" => alarm
    /\ flushCalls' = flushCalls + 1
    /\ FlushEntry(p, NewTask("flush"), txq)
    /\ UNCHANGED <<now, db, initialized, currentBufferSize, eventTypeCounts, events, alarm,
                   logCalls, okFiles>>
    /\ lastClear' = "none"
    /\ UNCHANGED lastSetAutoFlush
    /\ UNCHANGED nativeVars
    /\ UNCHANGED storeVars

\* JSON.stringify(e): one line of text; JSON text has no raw line terminator
\* (a newline inside a string value is written as the two characters \n)
JSONstringify(e) ==
    "{\"eventId\":" \o String(e.eventId) \o ",\"eventType\":\"" \o e.eventType \o "\"}"
\* Array.prototype.map with JSON.stringify
mapStringify(snapshot) == [i \in 1..Len(snapshot) |-> JSONstringify(snapshot[i])]
\* Array.prototype.join: the text as the sequence of its pieces, the elements
\* with the separator between each two of them
RECURSIVE join_Trailing(_, _)
join_Trailing(lines, sep) ==
    IF Len(lines) = 0 THEN <<>>
    ELSE <<Head(lines), sep>> \o join_Trailing(Tail(lines), sep)
RECURSIVE join(_, _)
join(lines, sep) ==
    IF Len(lines) = 0 THEN <<>>
    ELSE IF Len(lines) = 1 THEN <<Head(lines)>>
    ELSE <<Head(lines), sep>> \o join(Tail(lines), sep)
\* flushToFile(): the JSONL text that is encoded and downloaded
jsonl(snapshot) == join(mapStringify(snapshot), "\n")

\* (a variant without the check for an empty snapshot)
NothingToFlush_Never(snapshot) == FALSE

\* the snapshot is empty: flushToFile() has nothing to export
NothingToFlush(snapshot) == Len(snapshot) = 0

\* getAllEvents() resolved: an empty snapshot ends the flush with null; otherwise
\* the filename is computed (with a fresh reading of the clock) and
\* chrome.downloads.download() is called with the snapshot as payload
FlushGetAllDone(p) ==
    /\ task[p].pc = "fl_getall"
    /\ CanRun(p)
    /\ txq' = Dequeue(p)
    /\ LET snapshot == getAll(events) IN
       IF NothingToFlush(snapshot)
       THEN FlushReturn(p, "null")
       ELSE /\ task' = [task EXCEPT ![p].pc = "fl_download",
                                    ![p].snapshot = snapshot,
                                    ![p].filename = getFilename(config, now)]
            /\ UNCHANGED lastFlush
    /\ UNCHANGED <<now, db, initialized, config, currentBufferSize, eventTypeCounts, events,
                   configStore, alarm, logCalls, flushCalls, okFiles, okCount>>
    /\ UNCHANGED lastClear
    /\ UNCHANGED lastSetAutoFlush
    /\ UNCHANGED nativeVars
    /\ UNCHANGED storeVars

\* getAllEvents() rejected (the request failed): flushToFile() rejects
FlushGetAllFail(p) ==
    /\ task[p].pc = "fl_getall"
    /\ CanRun(p)
    /\ txq' = Dequeue(p)
    /\ FlushReturn(p, "request error")
    /\ UNCHANGED <<now, db, initialized, config, currentBufferSize, eventTypeCounts, events,
                   configStore, alarm, logCalls, flushCalls, okFiles, okCount>>
    /\ UNCHANGED lastClear
    /\ UNCHANGED lastSetAutoFlush
    /\ UNCHANGED nativeVars
    /\ UNCHANGED storeVars

\* the download resolved: clearEvents() creates its transaction
FlushDownloadOk(p) ==
    /\ task[p].pc = "fl_download"
    /\ okFiles' = okFiles \cup {task[p].filename}
    /\ task' = [task EXCEPT ![p].pc = "fl_clear"]
    /\ txq' = Append(txq, p)
    /\ UNCHANGED <<now, db, initialized, config, currentBufferSize, eventTypeCounts, events,
                   configStore, alarm, logCalls, flushCalls, okCount, lastFlush>>
    /\ UNCHANGED lastClear
    /\ UNCHANGED lastSetAutoFlush
    /\ UNCHANGED nativeVars
    /\ UNCHANGED storeVars

\* (a variant that swallows the error and returns null)
FlushDownloadFail_Swallow(p) ==
    /\ task[p].pc = "fl_download"
    /\ FlushReturn(p, "null")
    /\ UNCHANGED <<now, db, initialized, config, currentBufferSize, eventTypeCounts, events,
                   configStore, alarm, txq, logCalls, flushCalls, okFiles, okCount>>
    /\ UNCHANGED lastClear
    /\ UNCHANGED lastSetAutoFlush
    /\ UNCHANGED nativeVars
    /\ UNCHANGED storeVars

\* the download rejected: the catch block logs and rethrows
FlushDownloadFail(p) ==
    /\ task[p].pc = "fl_download"
    /\ FlushReturn(p, "download error")
    /\ UNCHANGED <<now, db, initialized, config, currentBufferSize, eventTypeCounts, events,
                   configStore, alarm, txq, logCalls, flushCalls, okFiles, okCount>>
    /\ UNCHANGED lastClear
    /\ UNCHANGED lastSetAutoFlush
    /\ UNCHANGED nativeVars
    /\ UNCHANGED storeVars

\* (a variant that leaves the records in place)
clearStore_Keep(S) == S

\* store.clear(): the object store after it
clearStore(S) == {}

\* (a variant that does not advance the sequence)
nextSequence_Stuck(n) == n

\* this.config.fileSequence++
nextSequence(n) == n + 1

\* the clear transaction completed: the size and the counts are reset, the
\* sequence is advanced and saveConfig() is awaited
FlushClearDone(p) ==
    /\ task[p].pc = "fl_clear"
    /\ CanRun(p)
    /\ txq' = Dequeue(p)
    /\ events' = clearStore(events)
    /\ currentBufferSize' = 0
    /\ eventTypeCounts' = NoCounts
    /\ config' = [config EXCEPT !.fileSequence = nextSequence(config.fileSequence)]
    /\ configStore' = saveConfig(config', db, configStore)
    /\ task' = [task EXCEPT ![p].pc = "fl_save"]
    /\ UNCHANGED <<now, db, initialized, alarm, logCalls, flushCalls, okFiles, okCount,
                   lastFlush>>
    /\ UNCHANGED lastClear
    /\ UNCHANGED lastSetAutoFlush
    /\ UNCHANGED nativeVars
    /\ UNCHANGED storeVars

\* the clear transaction failed: clearEvents() rejects, the catch block rethrows
FlushClearFail(p) ==
    /\ task[p].pc = "fl_clear"
    /\ CanRun(p)
    /\ txq' = Dequeue(p)
    /\ FlushReturn(p, "transaction error")
    /\ UNCHANGED <<now, db, initialized, config, currentBufferSize, eventTypeCounts, events,
                   configStore, alarm, logCalls, flushCalls, okFiles, okCount>>
    /\ UNCHANGED lastClear
    /\ UNCHANGED lastSetAutoFlush
    /\ UNCHANGED nativeVars
    /\ UNCHANGED storeVars

\* saveConfig() resolved: flushToFile() returns the filename
FlushSaveDone(p) ==
    /\ task[p].pc = "fl_save"
    /\ okCount' = okCount + 1
    /\ FlushReturn(p, "filename")
    /\ UNCHANGED <<now, db, initialized, config, currentBufferSize, eventTypeCounts, events,
                   configStore, alarm, txq, logCalls, flushCalls, okFiles>>
    /\ UNCHANGED lastClear
    /\ UNCHANGED lastSetAutoFlush
    /\ UNCHANGED nativeVars
    /\ UNCHANGED storeVars

\* ------------------------------------------------------------------- log()
\* a producer calls log(eventType, payload).  generateEventId() joins the time in
\* milliseconds and a random suffix: the ids of successive calls are distinct and
\* ascending, and the number of the call stands for them
StartLog(p, type) ==
    /\ FreeSlot(p)
    /\ logCalls < MaxEvents
    /\ logCalls' = logCalls + 1
    /\ LET tk == [NewTask("log") EXCEPT
                     !.event = [eventId |-> logCalls + 1, eventType |-> type]]
       IN IF db = NULL
          THEN /\ IF initialized
                  THEN task' = [task EXCEPT ![p] = Idle]
                  ELSE InitEntry(p, tk)
               /\ txq' = txq
          ELSE LogEntry(p, tk, txq)
    /\ lastFlush' = "none"
    /\ UNCHANGED <<now, db, initialized, config, currentBufferSize, eventTypeCounts, events,
                   configStore, alarm, flushCalls, okFiles, okCount>>
    /\ lastClear' = "none"
    /\ UNCHANGED lastSetAutoFlush
    /\ UNCHANGED nativeVars
    /\ UNCHANGED storeVars

\* currentBufferSize after the event is counted
sizeAfterAdd(size, e) == size + SerializedSize(e)

\* log() starts a flush after counting the event
needFlush(size) == size >= FLUSH_THRESHOLD_BYTES

\* the add transaction completed: the event is in the store, it is counted, and
\* at the threshold flushToFile('size_limit') is called and awaited
LogAddDone(p) ==
    /\ task[p].pc = "log_add"
    /\ CanRun(p)
    /\ \A e \in events : e.eventId # task[p].event.eventId
    /\ events' = events \cup {task[p].event}
    /\ currentBufferSize' = sizeAfterAdd(currentBufferSize, task[p].event)
    /\ eventTypeCounts' = [eventTypeCounts EXCEPT
                              ![task[p].event.eventType] = eventTypeCounts[task[p].event.eventType] + 1]
    /\ IF needFlush(currentBufferSize')
       THEN FlushEntry(p, NewTask("log"), Dequeue(p))
       ELSE /\ Return(p)
            /\ txq' = Dequeue(p)
            /\ UNCHANGED <<config, configStore, okCount>>
    /\ UNCHANGED <<now, db, initialized, alarm, logCalls, flushCalls, okFiles>>
    /\ UNCHANGED lastClear
    /\ UNCHANGED lastSetAutoFlush
    /\ UNCHANGED nativeVars
    /\ UNCHANGED storeVars

\* the add transaction failed (the key exists already, or the storage failed):
\* the promise rejects and log() throws
LogAddFail(p) ==
    /\ task[p].pc = "log_add"
    /\ CanRun(p)
    /\ txq' = Dequeue(p)
    /\ Return(p)
    /\ UNCHANGED <<now, db, initialized, config, currentBufferSize, eventTypeCounts, events,
                   configStore, alarm, logCalls, flushCalls, okFiles, okCount>>
    /\ UNCHANGED lastClear
    /\ UNCHANGED lastSetAutoFlush
    /\ UNCHANGED nativeVars
    /\ UNCHANGED storeVars

\* ------------------------------------------------------------------ clear()
\* the popup sends CLEAR_LOGS: clear() calls clearEvents()
StartClear(p) ==
    /\ FreeSlot(p)
    /\ IF db = NULL
       THEN /\ Return(p)
            /\ txq' = txq
            /\ lastClear' = "TypeError"
       ELSE /\ task' = [task EXCEPT ![p] = [NewTask("clear") EXCEPT !.pc = "cl_clear"]]
            /\ txq' = Append(txq, p)
            /\ lastClear' = "none"
            /\ UNCHANGED lastFlush
    /\ UNCHANGED <<now, db, initialized, config, currentBufferSize, eventTypeCounts, events,
                   configStore, alarm, logCalls, flushCalls, okFiles, okCount>>
    /\ UNCHANGED lastSetAutoFlush
    /\ UNCHANGED nativeVars
    /\ UNCHANGED storeVars

ClearDone(p) ==
    /\ task[p].pc = "cl_clear"
    /\ CanRun(p)
    /\ txq' = Dequeue(p)
    /\ events' = clearStore(events)
    /\ currentBufferSize' = 0
    /\ eventTypeCounts' = NoCounts
    /\ Return(p)
    /\ UNCHANGED <<now, db, initialized, config, configStore, alarm, logCalls, flushCalls,
                   okFiles, okCount>>
    /\ lastClear' = "none"
    /\ UNCHANGED lastSetAutoFlush
    /\ UNCHANGED nativeVars
    /\ UNCHANGED storeVars

\* (a variant that resets the size and the counts although the transaction failed)
ClearFail_ResetsSize(p) ==
    /\ task[p].pc = "cl_clear"
    /\ CanRun(p)
    /\ txq' = Dequeue(p)
    /\ currentBufferSize' = 0
    /\ eventTypeCounts' = NoCounts
    /\ Return(p)
    /\ UNCHANGED <<now, db, initialized, config, events, configStore, alarm, logCalls,
                   flushCalls, okFiles, okCount>>
    /\ lastClear' = "transaction error"
    /\ UNCHANGED lastSetAutoFlush
    /\ UNCHANGED nativeVars
    /\ UNCHANGED storeVars

\* the clear transaction failed: clearEvents() rejects and so does clear(); the
\* CLEAR_LOGS handler answers success: false with the error
ClearFail(p) ==
    /\ task[p].pc = "cl_clear"
    /\ CanRun(p)
    /\ txq' = Dequeue(p)
    /\ Return(p)
    /\ UNCHANGED <<now, db, initialized, config, currentBufferSize, eventTypeCounts, events,
                   configStore, alarm, logCalls, flushCalls, okFiles, okCount>>
    /\ lastClear' = "transaction error"
    /\ UNCHANGED lastSetAutoFlush
    /\ UNCHANGED nativeVars
    /\ UNCHANGED storeVars

\* ------------------------------------------------ setOutputDir(), setAutoFlush()
\* UPDATE_CONFIG with outputDir: setOutputDir(dir) sets config.outputDir (the
\* default for an empty dir) and calls saveConfig(), whose put is made at once;
\* nothing follows the await
OutputDirs == {"", "custom_logs"}
setOutputDir(dir) ==
    /\ config' = [config EXCEPT !.outputDir = IF dir = "" THEN DEFAULT_OUTPUT_DIR ELSE dir]
    /\ config' # config
    /\ configStore' = saveConfig(config', db, configStore)
    /\ UNCHANGED <<now, db, initialized, currentBufferSize, eventTypeCounts, events, alarm,
                   task, txq, logCalls, flushCalls, okFiles, okCount, lastFlush, lastClear,
                   lastSetAutoFlush>>
    /\ UNCHANGED nativeVars
    /\ UNCHANGED storeVars

\* UPDATE_CONFIG with autoFlush: setAutoFlush(enabled) up to its await: the
\* flag is set and saveConfig() is called.  One call is made at a time.
StartSetAutoFlush(p, enabled) ==
    /\ FreeSlot(p)
    /\ \A q \in Procs : task[q].pc # "saf_save"
    /\ config' = [config EXCEPT !.autoFlush = enabled]
    /\ configStore' = saveConfig(config', db, configStore)
    /\ task' = [task EXCEPT ![p] = [NewTask("setAutoFlush") EXCEPT !.pc = "saf_save",
                                                                   !.enabled = enabled]]
    /\ lastSetAutoFlush' = "pending"
    /\ UNCHANGED <<now, db, initialized, currentBufferSize, eventTypeCounts, events, alarm,
                   txq, logCalls, flushCalls, okFiles, okCount, lastFlush, lastClear>>
    /\ UNCHANGED nativeVars
    /\ UNCHANGED storeVars

\* saveConfig() resolved: setAutoFlush(true) calls setupAutoFlush(),
\* setAutoFlush(false) clears the alarm
SetAutoFlushDone(p) ==
    /\ task[p].pc = "saf_save"
    /\ alarm' = IF task[p].enabled THEN setupAutoFlush(config, alarm) ELSE FALSE
    /\ lastSetAutoFlush' = IF task[p].enabled THEN "true" ELSE "false"
    /\ task' = [task EXCEPT ![p] = Idle]
    /\ UNCHANGED <<now, db, initialized, config, currentBufferSize, eventTypeCounts, events,
                   configStore, txq, logCalls, flushCalls, okFiles, okCount, lastFlush,
                   lastClear>>
    /\ UNCHANGED nativeVars
    /\ UNCHANGED storeVars

\* ----------------------------------------------------------- specifications
Step(p) ==
    \/ StartInit(p)
    \/ InitOpenDone(p)
    \/ InitOpenFail(p)
    \/ InitLoadDone(p)
    \/ InitCalcDone(p)
    \/ \E type \in EventTypes : StartLog(p, type)
    \/ LogAddDone(p)
    \/ LogAddFail(p)
    \/ \E reason \in {"hourly", "manual"} : StartFlush(p, reason)
    \/ FlushGetAllDone(p)
    \/ FlushGetAllFail(p)
    \/ FlushDownloadOk(p)
    \/ FlushDownloadFail(p)
    \/ FlushClearDone(p)
    \/ FlushClearFail(p)
    \/ FlushSaveDone(p)
    \/ StartClear(p)
    \/ ClearDone(p)
    \/ ClearFail(p)

\* any interleaving of the calls, the read of the store by init() succeeding
Next == (\E h \in Clock : Tick(h)) \/ (\E p \in Procs : Step(p))
Spec == Init /\ [][Next]_vars

\* one call at a time: every call completes before the next is made; the read of
\* the store by init() can fail as well
NextSeq == (\E h \in Clock : Tick(h)) \/ Step(1) \/ InitCalcFail(1)
SpecSeq == Init /\ [][NextSeq]_vars

\* the calls that read or change the config: init(), the flushes of the alarm
\* and of FLUSH_NOW, setOutputDir() and setAutoFlush(), in any interleaving
StepConfig(p) ==
    \/ StartInit(p)
    \/ InitOpenDone(p)
    \/ InitLoadDone(p)
    \/ InitCalcDone(p)
    \/ \E reason \in {"hourly", "manual"} : StartFlush(p, reason)
    \/ FlushGetAllDone(p)
    \/ FlushDownloadOk(p)
    \/ FlushClearDone(p)
    \/ FlushSaveDone(p)
    \/ \E enabled \in BOOLEAN : StartSetAutoFlush(p, enabled)
    \/ SetAutoFlushDone(p)
NextConfig ==
    \/ \E h \in Clock : Tick(h)
    \/ \E p \in Procs : StepConfig(p)
    \/ \E dir \in OutputDirs : setOutputDir(dir)
SpecConfig == Init /\ [][NextConfig]_vars

\* ------------------------------------------- NativeLogger: sendMessage()
\* A request that sendMessage() has posted stays in reqs while its promise
\* is pending.  Its callback (callbacks[_id]) resolves that promise and its
\* timer rejects it; either one runs the continuation of the method that
\* awaits the promise (the request's caller) in the same action.
nextMessageId_Stuck(n) == IF n = 0 THEN 1 ELSE n
nextMessageId(n) == n + 1
Request(type, caller, ev, evs) ==
    [id |-> nextMessageId(messageId), type |-> type, caller |-> caller, event |-> ev,
     events |-> evs, port |-> port, answered |-> FALSE, stats |-> FALSE]
\* reqs and callbacks after a sendMessage() whose postMessage() returned
PostedReqs(R, type, caller, ev, evs) == MapSet(R, sent + 1, Request(type, caller, ev, evs))
PostedCallbacks(C) == MapSet(C, nextMessageId(messageId), sent + 1)
\* postMessage() can throw only on a port whose host end has gone
MayThrow(throws) == throws => (port # 0 /\ port \notin hostOpen)

\* sendMessage(): "noport" when it rejects at once for want of a port, "threw"
\* when postMessage() throws, "posted" when the request is pending
SendOutcome(throws) ==
    IF port = 0 THEN "noport" ELSE IF throws THEN "threw" ELSE "posted"
\* this.messageId, this.callbacks and the pending requests after sendMessage(),
\* called when they are messageId, C and R
sendMessage(R, C, type, caller, ev, evs, throws) ==
    IF SendOutcome(throws) = "noport"
    THEN [reqs |-> R, callbacks |-> C, messageId |-> messageId, sent |-> sent]
    ELSE IF SendOutcome(throws) = "threw"
    THEN [reqs |-> R, callbacks |-> MapDelete(C, nextMessageId(messageId)),
          messageId |-> nextMessageId(messageId), sent |-> sent]
    ELSE [reqs |-> PostedReqs(R, type, caller, ev, evs), callbacks |-> PostedCallbacks(C),
          messageId |-> nextMessageId(messageId), sent |-> sent + 1]
\* the four variables take the values sendMessage() leaves
Sends(S) ==
    /\ reqs' = S.reqs
    /\ callbacks' = S.callbacks
    /\ messageId' = S.messageId
    /\ sent' = S.sent
NoSend(R, C) ==
    /\ reqs' = R
    /\ callbacks' = C
    /\ UNCHANGED <<messageId, sent>>

\* what the promise a method returned settles with, given how the
\* sendMessage() promise the method awaited settled
\* connect(): the test of the then handler, if (response && response.pong)
handshakeOk_AnyResponse(outcome, pong) == outcome = "resolved"
handshakeOk(outcome, pong) == outcome = "resolved" /\ pong
connectResult(outcome, pong) == IF handshakeOk(outcome, pong) THEN "true" ELSE "false"
sendSessionStartResult(outcome) == IF outcome = "resolved" THEN "response" ELSE "null"
logResult_Rethrow(outcome) == IF outcome = "resolved" THEN "event" ELSE "rejected"
logResult(outcome) == "event"
flushBufferResult(outcome) == "undefined"
sendSessionEndResult(outcome) == "undefined"
getStatsResult(outcome) == "stats"
\* the methods whose promise has rejected, after the methods of ms returned vs
Returned(results) == rejected' = rejected \cup {r[1] : r \in {x \in results : x[2] = "rejected"}}

\* log(): the catch block, and the branch taken while not connected
logCatch_Drop(buf, e) == buf
logCatch(buf, e) == Append(buf, e)
slice(buf, n) == IF Len(buf) <= n THEN buf ELSE SubSeq(buf, Len(buf) - n + 1, Len(buf))
logOffline(buf, e) ==
    LET pushed == Append(buf, e)
    IN  IF Len(pushed) > BufferLimit THEN slice(pushed, BufferKeep) ELSE pushed

\* handleDisconnect(): the delay of the k-th reconnect
reconnectDelay_Constant(k) == 2000
reconnectDelay(k) == 2000 * k

\* connect(): connectNative() throws (ok = FALSE), or returns a port on which
\* the listeners are added and PING is sent.  byTimer: the call was scheduled
\* by handleDisconnect().
connect(limit, ok, byTimer) ==
    /\ connects < limit
    /\ connects' = connects + 1
    /\ IF byTimer THEN reconnectTimers > 0 /\ reconnectTimers' = reconnectTimers - 1
                  ELSE UNCHANGED reconnectTimers
    /\ IF ok
       THEN /\ port' = connects + 1
            /\ hostOpen' = hostOpen \cup {connects + 1}
            /\ live' = live \cup {connects + 1}
            /\ messageId' = nextMessageId(messageId)
            /\ sent' = sent + 1
            /\ reqs' = MapSet(reqs, sent + 1,
                              [Request("PING", "connect", 0, <<>>) EXCEPT !.port = connects + 1])
            /\ callbacks' = PostedCallbacks(callbacks)
            /\ UNCHANGED <<connected, rejected>>
       ELSE /\ connected' = FALSE
            /\ Returned({<<"connect", connectResult("rejected", FALSE)>>})
            /\ UNCHANGED <<port, hostOpen, live, messageId, sent, reqs, callbacks>>
    /\ UNCHANGED <<eventBuffer, reconnectAttempts, inbox, nlogCalls, timedOut, staleEvents,
                   scheduled, sessionEnds, flushBuffers>>
    /\ UNCHANGED statsVars
    /\ UNCHANGED loggerVars
    /\ UNCHANGED storeVars

\* the host answers request n on the port the request was posted on
HostRespond(n, pong) ==
    /\ n \in DOMAIN reqs
    /\ ~reqs[n].answered
    /\ reqs[n].port \in hostOpen
    /\ pong => reqs[n].type = "PING"
    /\ inbox' = inbox \cup {[id |-> reqs[n].id, port |-> reqs[n].port, pong |-> pong]}
    /\ reqs' = [reqs EXCEPT ![n].answered = TRUE]
    /\ UNCHANGED <<port, connected, eventBuffer, messageId, callbacks, reconnectAttempts,
                   sent, hostOpen, live, connects, reconnectTimers, nlogCalls, timedOut,
                   staleEvents, rejected, scheduled, sessionEnds, flushBuffers>>
    /\ UNCHANGED statsVars
    /\ UNCHANGED loggerVars
    /\ UNCHANGED storeVars

\* the host process ends, or closes its end of port k
HostClose(k) ==
    /\ k \in hostOpen
    /\ hostOpen' = hostOpen \ {k}
    /\ UNCHANGED <<port, connected, eventBuffer, messageId, callbacks, reconnectAttempts,
                   reqs, sent, inbox, live, connects, reconnectTimers, nlogCalls, timedOut,
                   staleEvents, rejected, scheduled, sessionEnds, flushBuffers>>
    /\ UNCHANGED statsVars
    /\ UNCHANGED loggerVars
    /\ UNCHANGED storeVars

\* The promise of request n settles (outcome "resolved" with a response whose
\* pong field is pong, or "rejected") and the method that awaits it goes on:
\* connect() in its then or catch handler, which on a pong calls
\* sendSessionStart(); log() in its catch block; flushBuffer() after its await,
\* and with it sendSessionEnd() when it awaits that flushBuffer().  R and C are
\* the pending requests and the callbacks without those of n.
Settle(n, outcome, pong, throws, R, C) ==
    LET q == reqs[n] IN
    IF q.caller = "connect"
    THEN IF handshakeOk(outcome, pong)
         THEN /\ connected' = TRUE
              /\ reconnectAttempts' = 0
              /\ scheduled' = <<>>
              /\ staleEvents' = Range(eventBuffer)
              /\ MayThrow(throws)
              /\ Sends(sendMessage(R, C, "SESSION_START", "sendSessionStart", 0, <<>>, throws))
              /\ Returned({<<"connect", connectResult(outcome, pong)>>} \cup
                          (IF SendOutcome(throws) = "posted" THEN {}
                           ELSE {<<"sendSessionStart", sendSessionStartResult("rejected")>>}))
              /\ UNCHANGED eventBuffer
         ELSE /\ ~throws
              /\ connected' = FALSE
              /\ NoSend(R, C)
              /\ Returned({<<"connect", connectResult(outcome, pong)>>})
              /\ UNCHANGED <<reconnectAttempts, scheduled, staleEvents, eventBuffer>>
    ELSE IF q.caller = "sendSessionStart"
    THEN /\ ~throws
         /\ NoSend(R, C)
         /\ Returned({<<"sendSessionStart", sendSessionStartResult(outcome)>>})
         /\ UNCHANGED <<connected, reconnectAttempts, scheduled, staleEvents, eventBuffer>>
    ELSE IF q.caller = "log"
    THEN /\ ~throws
         /\ NoSend(R, C)
         /\ eventBuffer' = IF outcome = "rejected" THEN logCatch(eventBuffer, q.event)
                           ELSE eventBuffer
         /\ Returned({<<"log", logResult(outcome)>>})
         /\ UNCHANGED <<connected, reconnectAttempts, scheduled, staleEvents>>
    ELSE IF q.caller = "flushBuffer"
    THEN /\ ~throws
         /\ NoSend(R, C)
         /\ eventBuffer' = IF outcome = "resolved" THEN <<>> ELSE eventBuffer
         /\ staleEvents' = staleEvents \cap Range(eventBuffer')
         /\ Returned({<<"flushBuffer", flushBufferResult(outcome)>>})
         /\ UNCHANGED <<connected, reconnectAttempts, scheduled>>
    ELSE IF q.type = "LOG_BATCH"
    THEN /\ eventBuffer' = IF outcome = "resolved" THEN <<>> ELSE eventBuffer
         /\ staleEvents' = staleEvents \cap Range(eventBuffer')
         /\ MayThrow(throws)
         /\ Sends(sendMessage(R, C, "SESSION_END", "sendSessionEnd", 0, <<>>, throws))
         /\ Returned({<<"flushBuffer", flushBufferResult(outcome)>>} \cup
                     (IF SendOutcome(throws) = "posted" THEN {}
                      ELSE {<<"sendSessionEnd", sendSessionEndResult("rejected")>>}))
         /\ UNCHANGED <<connected, reconnectAttempts, scheduled>>
    ELSE IF q.caller = "getStats"
    THEN /\ ~throws
         /\ NoSend(R, C)
         /\ Returned({<<"getStats", getStatsResult(outcome)>>})
         /\ UNCHANGED <<connected, reconnectAttempts, scheduled, staleEvents, eventBuffer>>
    ELSE /\ ~throws
         /\ NoSend(R, C)
         /\ Returned({<<"sendSessionEnd", sendSessionEndResult(outcome)>>})
         /\ UNCHANGED <<connected, reconnectAttempts, scheduled, staleEvents, eventBuffer>>

\* getStats(): the connected field of the object { connected: this.connected,
\* ..., ...this.status }: status has a connected property, and the property
\* spread last is the one the object keeps
statsConnected(conn, status) == status
\* the stats that a getStats() returns when request n, which it awaits,
\* settles: the response of the host has no connected property
StatsReturned(n) ==
    /\ lastStats' = IF reqs[n].caller = "getStats" THEN {reqs[n].stats} ELSE lastStats
    /\ UNCHANGED <<statusConnected, getStatsCalls>>

\* handleMessage(m): the callback registered under m.id, if there is one, is
\* removed and called; it resolves its request
handleMessage(m, throws) ==
    /\ m \in inbox
    /\ m.port \in live
    /\ inbox' = inbox \ {m}
    /\ IF m.id # 0 /\ m.id \in DOMAIN callbacks /\ callbacks[m.id] \in DOMAIN reqs
       THEN /\ Settle(callbacks[m.id], "resolved", m.pong, throws,
                      MapDelete(reqs, callbacks[m.id]), MapDelete(callbacks, m.id))
            /\ StatsReturned(callbacks[m.id])
       ELSE /\ ~throws
            /\ UNCHANGED statsVars
            /\ IF m.id # 0 /\ m.id \in DOMAIN callbacks
               THEN callbacks' = MapDelete(callbacks, m.id)
               ELSE UNCHANGED callbacks
            /\ UNCHANGED <<connected, reconnectAttempts, reqs, messageId, sent, eventBuffer,
                           staleEvents, rejected, scheduled>>
    /\ UNCHANGED <<port, hostOpen, live, connects, reconnectTimers, nlogCalls, timedOut,
                   sessionEnds, flushBuffers>>
    /\ UNCHANGED loggerVars
    /\ UNCHANGED storeVars

\* the 5000 ms timer of request n fires: it deletes the callback registered
\* under the request's _id and rejects the request
Timeout(n, throws) ==
    /\ n \in DOMAIN reqs
    /\ Settle(n, "rejected", FALSE, throws, MapDelete(reqs, n), MapDelete(callbacks, reqs[n].id))
    /\ timedOut' = IF reqs[n].type = "LOG_EVENT" THEN timedOut \cup {reqs[n].id}
                   ELSE timedOut
    /\ StatsReturned(n)
    /\ UNCHANGED <<port, inbox, hostOpen, live, connects, reconnectTimers, nlogCalls,
                   sessionEnds, flushBuffers>>
    /\ UNCHANGED loggerVars
    /\ UNCHANGED storeVars

\* onDisconnect fires on port k, whose host end has gone: handleDisconnect().
\* No message is delivered on the port after that, so the responses that were
\* on their way on it are gone.
handleDisconnect(k) ==
    /\ k \in live
    /\ k \notin hostOpen
    /\ live' = live \ {k}
    /\ inbox' = {m \in inbox : m.port # k}
    /\ connected' = FALSE
    /\ port' = 0
    /\ IF reconnectAttempts < maxReconnectAttempts
       THEN /\ reconnectAttempts' = reconnectAttempts + 1
            /\ reconnectTimers' = reconnectTimers + 1
            /\ scheduled' = Append(scheduled, reconnectDelay(reconnectAttempts'))
       ELSE UNCHANGED <<reconnectAttempts, reconnectTimers, scheduled>>
    /\ UNCHANGED <<eventBuffer, messageId, callbacks, reqs, sent, hostOpen,
                   connects, nlogCalls, timedOut, staleEvents, rejected, sessionEnds,
                   flushBuffers>>
    /\ statusConnected' = FALSE
    /\ UNCHANGED <<lastStats, getStatsCalls>>
    /\ UNCHANGED loggerVars
    /\ UNCHANGED storeVars

\* log(): the event of the k-th call is the number k.  While connected the
\* event is sent as LOG_EVENT, and buffered at once when sendMessage() rejects
\* without posting; otherwise it is buffered and the buffer is cut.
NativeLog(limit, throws) ==
    /\ nlogCalls < limit
    /\ nlogCalls' = nlogCalls + 1
    /\ MayThrow(throws)
    /\ throws => connected
    /\ IF connected
       THEN /\ Sends(sendMessage(reqs, callbacks, "LOG_EVENT", "log", nlogCalls + 1, <<>>,
                                 throws))
            /\ IF SendOutcome(throws) = "posted"
               THEN UNCHANGED <<eventBuffer, rejected>>
               ELSE /\ eventBuffer' = logCatch(eventBuffer, nlogCalls + 1)
                    /\ Returned({<<"log", logResult("rejected")>>})
       ELSE /\ eventBuffer' = logOffline(eventBuffer, nlogCalls + 1)
            /\ Returned({<<"log", logResult("resolved")>>})
            /\ UNCHANGED <<messageId, sent, reqs, callbacks>>
    /\ staleEvents' = staleEvents \cap Range(eventBuffer')
    /\ UNCHANGED <<port, connected, reconnectAttempts, inbox, hostOpen, live, connects,
                   reconnectTimers, timedOut, scheduled, sessionEnds, flushBuffers>>
    /\ UNCHANGED statsVars
    /\ UNCHANGED loggerVars
    /\ UNCHANGED storeVars

\* flushBuffer(), called on its own: without a connection or with an empty
\* buffer it returns; otherwise it sends a copy of the buffer as LOG_BATCH
flushBuffer(throws) ==
    /\ flushBuffers < MaxFlushBuffers
    /\ flushBuffers' = flushBuffers + 1
    /\ MayThrow(throws)
    /\ IF ~connected \/ Len(eventBuffer) = 0
       THEN /\ ~throws
            /\ Returned({<<"flushBuffer", flushBufferResult("resolved")>>})
            /\ UNCHANGED <<messageId, sent, reqs, callbacks, staleEvents>>
       ELSE /\ Sends(sendMessage(reqs, callbacks, "LOG_BATCH", "flushBuffer", 0, eventBuffer,
                                 throws))
            /\ IF SendOutcome(throws) = "posted"
               THEN /\ staleEvents' = staleEvents \ Range(eventBuffer)
                    /\ UNCHANGED rejected
               ELSE /\ Returned({<<"flushBuffer", flushBufferResult("rejected")>>})
                    /\ UNCHANGED staleEvents
    /\ UNCHANGED <<port, connected, eventBuffer, reconnectAttempts, inbox, hostOpen, live,
                   connects, reconnectTimers, nlogCalls, timedOut, scheduled, sessionEnds>>
    /\ UNCHANGED statsVars
    /\ UNCHANGED loggerVars
    /\ UNCHANGED storeVars

\* (a variant that never flushes before the end of the session)
hasBuffered_Never(buf) == FALSE
\* sendSessionEnd(): this.eventBuffer.length > 0
hasBuffered(buf) == Len(buf) > 0

\* sendSessionEnd(): without a connection it returns; with buffered events it
\* awaits flushBuffer(), whose LOG_BATCH request it waits for, and then sends
\* SESSION_END; with an empty buffer it sends SESSION_END at once
sendSessionEnd(throws) ==
    /\ sessionEnds < MaxSessionEnds
    /\ sessionEnds' = sessionEnds + 1
    /\ MayThrow(throws)
    /\ IF ~connected
       THEN /\ ~throws
            /\ Returned({<<"sendSessionEnd", sendSessionEndResult("resolved")>>})
            /\ UNCHANGED <<messageId, sent, reqs, callbacks, staleEvents>>
       ELSE IF hasBuffered(eventBuffer) /\ SendOutcome(throws) = "posted"
       THEN /\ Sends(sendMessage(reqs, callbacks, "LOG_BATCH", "sendSessionEnd", 0,
                                 eventBuffer, throws))
            /\ staleEvents' = staleEvents \ Range(eventBuffer)
            /\ UNCHANGED rejected
       ELSE IF SendOutcome(throws) = "posted"
       THEN /\ Sends(sendMessage(reqs, callbacks, "SESSION_END", "sendSessionEnd", 0, <<>>,
                                 throws))
            /\ UNCHANGED <<rejected, staleEvents>>
       ELSE \* sendMessage() rejects at once, for LOG_BATCH (when there are events)
            \* and then for SESSION_END; both catch blocks run
            /\ reqs' = reqs
            /\ callbacks' = callbacks
            /\ sent' = sent
            /\ messageId' = IF SendOutcome(throws) = "noport" THEN messageId
                            ELSE IF hasBuffered(eventBuffer)
                            THEN nextMessageId(nextMessageId(messageId))
                            ELSE nextMessageId(messageId)
            /\ Returned((IF hasBuffered(eventBuffer)
                         THEN {<<"flushBuffer", flushBufferResult("rejected")>>} ELSE {})
                        \cup {<<"sendSessionEnd", sendSessionEndResult("rejected")>>})
            /\ UNCHANGED staleEvents
    /\ UNCHANGED <<port, connected, eventBuffer, reconnectAttempts, inbox, hostOpen, live,
                   connects, reconnectTimers, nlogCalls, timedOut, scheduled, flushBuffers>>
    /\ UNCHANGED statsVars
    /\ UNCHANGED loggerVars
    /\ UNCHANGED storeVars

\* clear(), called with events in the buffer
nativeClear ==
    /\ eventBuffer # <<>>
    /\ eventBuffer' = <<>>
    /\ staleEvents' = {}
    /\ UNCHANGED <<port, connected, messageId, callbacks, reconnectAttempts, reqs, sent,
                   inbox, hostOpen, live, connects, reconnectTimers, nlogCalls, timedOut,
                   rejected, scheduled, sessionEnds, flushBuffers>>
    /\ UNCHANGED statsVars
    /\ UNCHANGED loggerVars
    /\ UNCHANGED storeVars

\* getStats(): the stats object is built; while connected GET_STATUS is sent
\* and awaited, and the stats are returned when the request settles (a
\* rejection is caught); otherwise they are returned at once
getStats(throws) ==
    /\ getStatsCalls < MaxGetStats
    /\ getStatsCalls' = getStatsCalls + 1
    /\ MayThrow(throws)
    /\ throws => connected
    /\ IF connected
       THEN /\ Sends(LET S == sendMessage(reqs, callbacks, "GET_STATUS", "getStats", 0, <<>>,
                                         throws)
                     IN  IF SendOutcome(throws) = "posted"
                         THEN [S EXCEPT !.reqs[sent + 1].stats =
                                           statsConnected(connected, statusConnected)]
                         ELSE S)
            /\ lastStats' = IF SendOutcome(throws) = "posted" THEN lastStats
                            ELSE {statsConnected(connected, statusConnected)}
       ELSE /\ UNCHANGED <<messageId, sent, reqs, callbacks>>
            /\ lastStats' = {statsConnected(connected, statusConnected)}
    /\ UNCHANGED <<port, connected, eventBuffer, reconnectAttempts, inbox, hostOpen, live,
                   connects, reconnectTimers, nlogCalls, timedOut, staleEvents, rejected,
                   scheduled, sessionEnds, flushBuffers, statusConnected>>
    /\ UNCHANGED loggerVars
    /\ UNCHANGED storeVars

\* a NativeLogger that connects once, with getStats() called at any time
NextStats ==
    \/ \E ok \in BOOLEAN : connects = 0 /\ connect(MaxConnects, ok, FALSE)
    \/ \E n \in DOMAIN reqs, pong \in BOOLEAN : HostRespond(n, pong)
    \/ \E k \in hostOpen : HostClose(k)
    \/ \E m \in inbox, throws \in BOOLEAN : handleMessage(m, throws)
    \/ \E n \in DOMAIN reqs, throws \in BOOLEAN : Timeout(n, throws)
    \/ \E k \in live : handleDisconnect(k)
    \/ \E throws \in BOOLEAN : getStats(throws)
SpecStats == Init /\ [][NextStats]_vars

\* ----------------------------------------- NativeLogger: specifications
\* a NativeLogger whose host answers, stays silent or goes away at any time
NextNative ==
    \/ \E ok \in BOOLEAN, byTimer \in BOOLEAN : connect(MaxConnects, ok, byTimer)
    \/ \E n \in DOMAIN reqs, pong \in BOOLEAN : HostRespond(n, pong)
    \/ \E k \in hostOpen : HostClose(k)
    \/ \E m \in inbox, throws \in BOOLEAN : handleMessage(m, throws)
    \/ \E n \in DOMAIN reqs, throws \in BOOLEAN : Timeout(n, throws)
    \/ \E k \in live : handleDisconnect(k)
    \/ \E throws \in BOOLEAN : NativeLog(MaxNativeLogs, throws)
SpecNative == Init /\ [][NextNative]_vars

\* a NativeLogger that connects once, with every timer that sendMessage() sets
\* firing unless it is cleared: setTimeout() callbacks are run by the event loop
NextOnePort ==
    \/ \E ok \in BOOLEAN : connects = 0 /\ connect(MaxConnects, ok, FALSE)
    \/ \E n \in DOMAIN reqs, pong \in BOOLEAN : HostRespond(n, pong)
    \/ \E k \in hostOpen : HostClose(k)
    \/ \E m \in inbox, throws \in BOOLEAN : handleMessage(m, throws)
    \/ \E n \in DOMAIN reqs, throws \in BOOLEAN : Timeout(n, throws)
    \/ \E k \in live : handleDisconnect(k)
    \/ \E throws \in BOOLEAN : NativeLog(MaxNativeLogs, throws)
MaxSent == 2 + MaxNativeLogs
SpecNativeTimers ==
    /\ Init
    /\ [][NextOnePort]_vars
    /\ \A n \in 1..MaxSent : WF_vars(\E throws \in BOOLEAN : Timeout(n, throws))

\* a NativeLogger that connects once, with log(), flushBuffer(),
\* sendSessionEnd() and clear() called at any time
NextSession ==
    \/ \E ok \in BOOLEAN : connects = 0 /\ connect(MaxConnects, ok, FALSE)
    \/ \E n \in DOMAIN reqs, pong \in BOOLEAN : HostRespond(n, pong)
    \/ \E k \in hostOpen : HostClose(k)
    \/ \E m \in inbox, throws \in BOOLEAN : handleMessage(m, throws)
    \/ \E n \in DOMAIN reqs, throws \in BOOLEAN : Timeout(n, throws)
    \/ \E k \in live : handleDisconnect(k)
    \/ \E throws \in BOOLEAN : NativeLog(MaxNativeLogs, throws)
    \/ \E throws \in BOOLEAN : flushBuffer(throws)
    \/ \E throws \in BOOLEAN : sendSessionEnd(throws)
    \/ nativeClear
SpecSession == Init /\ [][NextSession]_vars

\* a NativeLogger that only connects and reconnects, with connect() called
\* when no port is open
NextReconnect ==
    \/ \E ok \in BOOLEAN, byTimer \in BOOLEAN :
          live = {} /\ connect(MaxReconnects, ok, byTimer)
    \/ \E n \in DOMAIN reqs, pong \in BOOLEAN : HostRespond(n, pong)
    \/ \E k \in hostOpen : HostClose(k)
    \/ \E m \in inbox, throws \in BOOLEAN : handleMessage(m, throws)
    \/ \E n \in DOMAIN reqs, throws \in BOOLEAN : Timeout(n, throws)
    \/ \E k \in live : handleDisconnect(k)
SpecReconnect == Init /\ [][NextReconnect]_vars

\* a NativeLogger on which init() is never called: every log() call finds it
\* disconnected
NextOffline == ~connected /\ connects = 0 /\ NativeLog(OfflineCalls, FALSE)
SpecOffline == Init /\ [][NextOffline]_vars

\* a NativeLogger whose host answers PING and SESSION_START and nothing else,
\* with log() called when the call before it has returned
NextSilentHost ==
    \/ connects = 0 /\ connect(MaxConnects, TRUE, FALSE)
    \/ \E n \in DOMAIN reqs :
          reqs[n].type \in {"PING", "SESSION_START"} /\ HostRespond(n, reqs[n].type = "PING")
    \/ \E m \in inbox : handleMessage(m, FALSE)
    \/ connected /\ DOMAIN reqs = {} /\ inbox = {} /\ NativeLog(TimeoutCalls, FALSE)
    \/ \E n \in DOMAIN reqs : reqs[n].type = "LOG_EVENT" /\ Timeout(n, FALSE)
SpecSilentHost == Init /\ [][NextSilentHost]_vars

\* ------------------------------------------- log() on the keyed object store
\* Date.now() moves on
TickMs ==
    /\ msNow < MaxMs
    /\ msNow' = msNow + 1
    /\ UNCHANGED <<objectStore, appended, storeSize, storeCounts, lastAdd>>
    /\ UNCHANGED <<loggerVars, nativeVars>>

\* log(eventType, ...) on an initialized logger whose size stays under the
\* threshold: the event gets its id from the clock and the random suffix r and
\* is added in a transaction; when the transaction completes the size and the
\* counts are updated, when it fails log() rejects before the update
KeyedLog(r, eventType) ==
    LET event == [eventId |-> generateEventId(msNow, r), eventType |-> eventType,
                  call |-> Len(appended) + 1]
        added == objectStoreAdd(objectStore, event)
    IN  /\ Len(appended) < MaxKeyedLogs
        /\ objectStore' = added.records
        /\ IF added.ok
           THEN /\ appended' = Append(appended, event)
                /\ storeSize' = storeSize + SerializedSize(event)
                /\ storeCounts' = [storeCounts EXCEPT ![eventType] = @ + 1]
                /\ lastAdd' = "ok"
           ELSE /\ lastAdd' = "ConstraintError"
                /\ UNCHANGED <<appended, storeSize, storeCounts>>
        /\ UNCHANGED msNow
        /\ UNCHANGED <<loggerVars, nativeVars>>

NextKeyed ==
    \/ TickMs
    \/ \E r \in 0..MaxSuffix, eventType \in EventTypes : KeyedLog(r, eventType)
SpecKeyed == Init /\ [][NextKeyed]_vars

\* ------------------------------------------------------------------ claims
ExportPcs == {"fl_download", "fl_clear", "fl_save"}
\* the step of slot p from pc a to pc b
Moves(p, a, b) == task[p].pc = a /\ task'[p].pc = b
\* the filenames of partition hour t, for every sequence number a run can reach
MaxSequence == MaxEvents + MaxFlushes + 1
FilesOf(t) == {FilenameOf(config.outputDir, getPartitionPath(t), n) : n \in 1..MaxSequence}

\* C1: an event whose append committed between a flush's snapshot and its clear
\* is never silently dropped: when the clear of a flush empties the store, every
\* event in the store was in the payload handed to the successful download, and
\* the size counter agrees with the store afterwards.
C1_NoEventDroppedByClear ==
    [][\A p \in Procs :
          Moves(p, "fl_clear", "fl_save") =>
              /\ events \subseteq Range(task[p].snapshot)
              /\ currentBufferSize' = SumSizes(events')]_vars

\* C2: at most one flush exports at a time: no two flushes have a download
\* issued and not yet completed with the same filename or with an event in both
\* payloads.
C2_SingleFlight ==
    \A p, q \in Procs :
        (p # q /\ task[p].pc \in ExportPcs /\ task[q].pc \in ExportPcs) =>
            /\ task[p].filename # task[q].filename
            /\ Range(task[p].snapshot) \cap Range(task[q].snapshot) = {}

\* C3 as stated: when the download rejects, the flush rejects with that error,
\* the store, currentBufferSize and the config are as they were, and the flush
\* has not changed fileSequence at all.
C3_SinkFailureLeavesAllUnchanged ==
    [][\A p \in Procs :
          Moves(p, "fl_download", "idle") =>
              /\ lastFlush' = "download error"
              /\ events' = events
              /\ currentBufferSize' = currentBufferSize
              /\ eventTypeCounts' = eventTypeCounts
              /\ config' = config
              /\ task[p].seqOut = task[p].seqIn]_vars

\* C3 as amended: when the download rejects, the flush rejects with that error
\* and removes no event, changes neither currentBufferSize nor the config from
\* the download call on, and has not advanced fileSequence: its partition check
\* left fileSequence as it was or reset it to 1.
C3_SinkFailureLeavesStore ==
    [][\A p \in Procs :
          Moves(p, "fl_download", "idle") =>
              /\ lastFlush' = "download error"
              /\ events' = events
              /\ currentBufferSize' = currentBufferSize
              /\ eventTypeCounts' = eventTypeCounts
              /\ config' = config
              /\ task[p].seqOut \in {task[p].seqIn, 1}]_vars

\* a flush whose partition check reset a sequence above 1 has been rejected by
\* the download, with the events still in the store
C3_Witness ==
    /\ lastFlush = "download error"
    /\ events # {}
    /\ okFiles # {}
    /\ config.fileSequence = 1
    /\ Quiescent

\* C4: no two successful downloads are issued with the same partition path and
\* sequence number (the filename, the output directory being fixed).
C4_FilenameNeverReused ==
    [][\A p \in Procs :
          Moves(p, "fl_download", "fl_clear") => task[p].filename \notin okFiles]_vars

\* C5: after every successful append and after every clear that leaves no call
\* in progress, currentBufferSize is the sum of the serialized sizes of the
\* events in the store.
C5_SizeMatchesStore ==
    [][(Quiescent' /\ events' # events) => currentBufferSize' = SumSizes(events')]_vars

\* C6: exactly one flushToFile('size_limit') is started per crossing of the
\* threshold: log() starts a flush only in the step that takes
\* currentBufferSize from below the threshold to the threshold or above.
C6_OneFlushPerCrossing ==
    [][\A p \in Procs :
          Moves(p, "log_add", "fl_getall") => currentBufferSize < FLUSH_THRESHOLD_BYTES]_vars

\* the read of the store by the flush in slot p settles in this step, without
\* error, and the store is empty
ReadsEmptyStore(p) ==
    /\ task[p].pc = "fl_getall"
    /\ task'[p].pc # "fl_getall"
    /\ events = {}
    /\ lastFlush' # "request error"

\* C7 as stated: every download call carries at least one event, and a flush
\* that finds the store empty returns null without a download call, without
\* clearing the store and without having changed fileSequence.
C7_EmptyFlushChangesNothing ==
    [][\A p \in Procs :
          /\ (task[p].pc # "fl_download" /\ task'[p].pc = "fl_download") =>
                 Len(task'[p].snapshot) >= 1
          /\ ReadsEmptyStore(p) =>
                 /\ task'[p].pc = "idle"
                 /\ lastFlush' = "null"
                 /\ events' = events
                 /\ currentBufferSize' = currentBufferSize
                 /\ okFiles' = okFiles
                 /\ config' = config
                 /\ task[p].seqOut = task[p].seqIn]_vars

\* C7 as amended: every download call carries at least one event, and a flush
\* that finds the store empty returns null without a download call, without
\* clearing the store and without advancing fileSequence: its partition check
\* left fileSequence as it was or reset it to 1.
C7_NoZeroEventFile ==
    [][\A p \in Procs :
          /\ (task[p].pc # "fl_download" /\ task'[p].pc = "fl_download") =>
                 Len(task'[p].snapshot) >= 1
          /\ ReadsEmptyStore(p) =>
                 /\ task'[p].pc = "idle"
                 /\ lastFlush' = "null"
                 /\ events' = events
                 /\ currentBufferSize' = currentBufferSize
                 /\ okFiles' = okFiles
                 /\ config' = config
                 /\ task[p].seqOut \in {task[p].seqIn, 1}]_vars

\* a flush on the empty store has returned null after its partition check reset
\* a sequence that an earlier successful flush had advanced
C7_Witness ==
    /\ lastFlush = "null"
    /\ events = {}
    /\ okFiles # {}
    /\ config.fileSequence = 1
    /\ Quiescent

\* C8: of two flushes in a row with no log() call in between, the first hands
\* every buffered event (at least one) to the download and, when it returns the
\* filename, leaves the store empty and currentBufferSize 0; the second, when
\* its read of the store settles without error, returns null, and it calls no
\* download.
C8_SecondFlushIsNoOp ==
    [][\A p \in Procs :
          /\ Moves(p, "fl_getall", "fl_download") =>
                 /\ Range(task'[p].snapshot) = events
                 /\ Len(task'[p].snapshot) = Cardinality(events)
                 /\ events # {}
          /\ Moves(p, "fl_save", "idle") =>
                 /\ lastFlush' = "filename"
                 /\ events' = {}
                 /\ currentBufferSize' = 0
          /\ (lastFlush = "filename" /\ task[p].top = "flush") =>
                 /\ task'[p].pc \notin ExportPcs
                 /\ okFiles' = okFiles
                 /\ lastFlush' \in {"filename", "null", "request error"}]_vars

\* a flush has returned null after an earlier flush exported the only event logged
C8_Witness ==
    /\ lastFlush = "null"
    /\ okFiles # {}
    /\ logCalls = 1
    /\ flushCalls = 2
    /\ Quiescent

C10_FirstFileIs001 ==
    \A t \in Clock :
        (FilesOf(t) \cap okFiles # {}) =>
            FilenameOf(config.outputDir, getPartitionPath(t), 1) \in okFiles

\* C11: the filename a flush exports reflects the state its rollover check
\* left: while one call runs at a time, the partition path in the filename of
\* every download is the path of the key in config.currentPartition, and the
\* sequence in it is the fileSequence the flush's check left.
C11_FilenameReflectsRollover ==
    \A p \in Procs :
        task[p].pc = "fl_download" =>
            \E t \in Clock :
                /\ getPartitionKey(t) = config.currentPartition
                /\ task[p].filename =
                       FilenameOf(config.outputDir, getPartitionPath(t), task[p].seqOut)

\* the step in which the promise of the log() call in slot p rejects: init(),
\* the add transaction or the flush it awaits has failed and log() rethrows
LogRejects(p) ==
    /\ task[p].top = "log"
    /\ \/ InitOpenFail(p)
       \/ InitCalcFail(p)
       \/ LogAddFail(p)
       \/ FlushGetAllFail(p)
       \/ FlushDownloadFail(p)
       \/ FlushClearFail(p)

\* C12: the promise returned by log() never rejects, whatever fails below it.
C12_LogNeverRejects == [][\A p \in Procs : ~LogRejects(p)]_vars

\* C13: events are added to the store in the order of their log() calls: when
\* the add of a log() call commits, every event in the store is of an earlier
\* call (the eventId is the number of the call).
C13_AppendInCallOrder ==
    [][\A p \in Procs :
          LogAddDone(p) => \A e \in events : e.eventId < task[p].event.eventId]_vars

\* (a variant that returns the size of the store instead of the number of records)
getEventCount_Size(S) == SumSizes(S)

\* getEventCount(): store.count() on the store S
getEventCount(S) == Cardinality(S)

C15_ClearFailureStillSucceeds ==
    [][\A p \in Procs :
          FlushClearFail(p) =>
              /\ lastFlush' = "filename"
              /\ config'.fileSequence = nextSequence(config.fileSequence)]_vars

\* C16: a clear whose transaction fails leaves the buffered events intact and
\* is reported: clear() either rejects with the transaction error, with the
\* store, currentBufferSize and eventTypeCounts as they were, or resolves with
\* all three reset; and a flush whose clearEvents() fails rejects with the
\* store, currentBufferSize and eventTypeCounts as they were.
C16_FailedClearLeavesEvents ==
    [][\A p \in Procs :
          /\ Moves(p, "cl_clear", "idle") =>
                \/ /\ lastClear' = "transaction error"
                   /\ events' = events
                   /\ currentBufferSize' = currentBufferSize
                   /\ eventTypeCounts' = eventTypeCounts
                \/ /\ lastClear' = "none"
                   /\ events' = {}
                   /\ currentBufferSize' = 0
                   /\ eventTypeCounts' = NoCounts
          /\ Moves(p, "fl_clear", "idle") =>
                /\ lastFlush' = "transaction error"
                /\ events' = events
                /\ currentBufferSize' = currentBufferSize
                /\ eventTypeCounts' = eventTypeCounts]_vars

\* a clear() has rejected with the transaction error and the events it was to
\* remove are still in the store, counted in currentBufferSize
C16_Witness ==
    /\ lastClear = "transaction error"
    /\ Quiescent
    /\ initialized
    /\ events # {}
    /\ currentBufferSize = SumSizes(events)
    /\ eventTypeCounts = CountTypes(events)

\* C17: the _ids of the pending requests are pairwise distinct, and a response
\* that handleMessage() receives with _id = i resolves the pending request that
\* was sent with _id = i and no other request, whatever the order in which the
\* responses arrive.
Settled == {n \in DOMAIN reqs : n \notin DOMAIN reqs'}
C17_ResponseMatchedById ==
    [][/\ \A n1 \in DOMAIN reqs', n2 \in DOMAIN reqs' :
             n1 # n2 => reqs'[n1].id # reqs'[n2].id
       /\ \A m \in inbox, throws \in BOOLEAN :
             handleMessage(m, throws) =>
                 \A n \in DOMAIN reqs : (n \in Settled) <=> (reqs[n].id = m.id)]_vars
\* the response to the second log() call has resolved it while the request of
\* the first call is still pending
C17_Witness ==
    /\ nlogCalls = 2
    /\ eventBuffer = <<>>
    /\ timedOut = {}
    /\ \E n \in DOMAIN reqs : reqs[n].type = "LOG_EVENT" /\ reqs[n].event = 1
    /\ \A n \in DOMAIN reqs : reqs[n].event # 2

\* C18: when the timeout of a LOG_EVENT request fires, the event of the
\* request, which was not in eventBuffer, is appended to it once; a response
\* to the request that arrives after the timeout leaves eventBuffer as it is;
\* no event is in eventBuffer twice.
C18_TimedOutEventBufferedOnce ==
    [][/\ \A n \in DOMAIN reqs :
             ((\E throws \in BOOLEAN : Timeout(n, throws)) /\ reqs[n].type = "LOG_EVENT") =>
                 /\ \A i \in 1..Len(eventBuffer) : eventBuffer[i] # reqs[n].event
                 /\ eventBuffer' = Append(eventBuffer, reqs[n].event)
       /\ \A m \in inbox, throws \in BOOLEAN :
             (handleMessage(m, throws) /\ m.id \in timedOut) => eventBuffer' = eventBuffer
       /\ \A i \in 1..Len(eventBuffer'), j \in 1..Len(eventBuffer') :
             i # j => eventBuffer'[i] # eventBuffer'[j]]_vars
\* the request of the first log() call has timed out, its event is buffered and
\* the late response to it is about to be handled
C18_Witness ==
    /\ eventBuffer = <<1>>
    /\ \E m \in inbox : m.id \in timedOut /\ m.port \in live

\* C19: after 1500 log() calls on a NativeLogger that was never connected,
\* eventBuffer holds the events 501..1500 in call order.
C19_KeepsNewestThousand ==
    (nlogCalls = 1500 /\ ~connected /\ connects = 0) =>
        eventBuffer = [i \in 1..1000 |-> 500 + i]

\* C20: eventBuffer never holds more than 1000 events, also when the events
\* are buffered by log() calls made while connected whose requests time out.
C20_BufferWithinCap == Len(eventBuffer) <= BufferLimit

\* checkPartitionChange(): the value it returns
partitionChanged(cfg, t) ==
    IF cfg.currentPartition # NULL /\ cfg.currentPartition # getPartitionKey(t)
    THEN TRUE
    ELSE FALSE

\* C25: when the partition key of the clock differs from config.currentPartition
\* (null included), checkPartitionChange() leaves fileSequence = 1 and the new
\* key in the config, persists the config and returns true; when the keys are
\* equal it returns false and changes neither the config nor the config store.
C25_PartitionChangeOnAnyDifference ==
    [][\A p \in Procs :
          (\E reason \in {"hourly", "manual"} : StartFlush(p, reason)) =>
              IF getPartitionKey(now) # config.currentPartition
              THEN /\ partitionChanged(config, now)
                   /\ config'.fileSequence = 1
                   /\ config'.currentPartition = getPartitionKey(now)
                   /\ configStore' = {config'}
              ELSE /\ ~partitionChanged(config, now)
                   /\ config' = config
                   /\ configStore' = configStore]_vars

\* C26: the only step that increments config.fileSequence is the one of a
\* flushToFile() call that follows the resolved download and the clear of that
\* call; it adds one and the call does not reach it again.  No step of log()
\* or clear() makes fileSequence grow, and a step of init() changes it only by
\* loading the value that loadConfig() read from the config store.
C26_SequenceGrowsOnlyAfterExport ==
    [][config'.fileSequence > config.fileSequence =>
          \/ \E p \in Procs :
                /\ FlushClearDone(p)
                /\ task[p].filename \in okFiles
                /\ config'.fileSequence = nextSequence(config.fileSequence)
                /\ task'[p].pc = "fl_save"
          \/ \E p \in Procs :
                /\ InitLoadDone(p)
                /\ \E c \in task[p].loaded : config'.fileSequence = c.fileSequence]_vars
\* a flush has exported a file and advanced the sequence to 2
C26_Witness ==
    /\ config.fileSequence = 2
    /\ lastFlush = "filename"
    /\ okCount = 1
    /\ events = {}
    /\ Quiescent

\* C27: getAllEvents() returns the stored events in the order in which they
\* were added, also when two events were created in the same millisecond.
C27_GetAllInInsertionOrder == getAllByKey(objectStore) = appended

\* C28: a log() call whose eventId is the key of a stored record fails with the
\* error of the add: the stored records (the one with that key included), their
\* number, currentBufferSize and eventTypeCounts are as they were.
C28_DuplicateKeyChangesNothing ==
    [][\A r \in 0..MaxSuffix, eventType \in EventTypes :
          (/\ KeyedLog(r, eventType)
           /\ \E x \in objectStore : x.eventId = generateEventId(msNow, r)) =>
              /\ lastAdd' = "ConstraintError"
              /\ objectStore' = objectStore
              /\ Cardinality(objectStore') = Cardinality(objectStore)
              /\ storeSize' = storeSize
              /\ storeCounts' = storeCounts]_vars
\* an add with the key of a stored event has been rejected
C28_Witness ==
    /\ lastAdd = "ConstraintError"
    /\ objectStore # {}
    /\ storeSize = SumSizes(objectStore)
    /\ storeCounts = CountTypes(objectStore)

\* a request of the given type is posted in the step
Posts(type) == \E n \in (DOMAIN reqs') \ (DOMAIN reqs) : reqs'[n].type = type

\* C21: in the step in which connected becomes true a SESSION_START request is
\* posted (on a port whose host end is open); no LOG_EVENT request is posted while an event that was in
\* eventBuffer when connected became true is still there without having been
\* sent in a LOG_BATCH; when a LOG_BATCH request is resolved its events are not
\* in eventBuffer afterwards.
C21_BufferFlushedOnConnect ==
    [][/\ (~connected /\ connected' /\ port \in hostOpen) => Posts("SESSION_START")
       /\ Posts("LOG_EVENT") => staleEvents = {}
       /\ \A m \in inbox, throws \in BOOLEAN :
             (/\ handleMessage(m, throws)
              /\ m.id \in DOMAIN callbacks
              /\ callbacks[m.id] \in DOMAIN reqs
              /\ reqs[callbacks[m.id]].type = "LOG_BATCH") =>
                 Range(reqs[callbacks[m.id]].events) \cap Range(eventBuffer') = {}]_vars

\* no reconnect is scheduled, none is under way and the attempts are used up
Exhausted ==
    /\ reconnectAttempts = maxReconnectAttempts
    /\ reconnectTimers = 0
    /\ ~connected
    /\ \A n \in DOMAIN reqs : reqs[n].type # "PING"

\* C22: since the last handshake that succeeded at most 3 reconnects have been
\* scheduled, the k-th with a delay of 2000 * k ms, and reconnectAttempts is
\* their number; a handshake that succeeds sets reconnectAttempts to 0; a
\* disconnect that finds 3 attempts made schedules nothing, and from then on
\* the logger stays disconnected until connect() is called again.
C22_BoundedReconnect ==
    [][/\ Len(scheduled') <= 3
       /\ \A k \in 1..Len(scheduled') : scheduled'[k] = 2000 * k
       /\ reconnectAttempts' = Len(scheduled')
       /\ (~connected /\ connected') => reconnectAttempts' = 0
       /\ \A k \in live :
             (handleDisconnect(k) /\ reconnectAttempts = 3) =>
                 (reconnectTimers' = reconnectTimers /\ scheduled' = scheduled)
       /\ (Exhausted /\ connects' = connects) => Exhausted']_vars
\* three reconnects were scheduled and have failed, and the logger has given up
C22_Witness ==
    /\ Exhausted
    /\ scheduled = <<2000, 4000, 6000>>
    /\ connects = 4
    /\ live = {}

\* a request of the given type is posted in the step for sendSessionEnd()
PostsForSessionEnd(type) ==
    \E n \in (DOMAIN reqs') \ (DOMAIN reqs) :
        reqs'[n].type = type /\ reqs'[n].caller = "sendSessionEnd"

\* C23: sendSessionEnd() called while not connected posts nothing and leaves
\* eventBuffer as it is.  Called while connected with events in the buffer, it
\* posts them as a LOG_BATCH and not yet SESSION_END, unless sendMessage()
\* rejects at once; SESSION_END is posted by the call itself only when the
\* buffer is empty, and otherwise in the step in which the LOG_BATCH request of
\* the call has settled; no LOG_BATCH is posted for the call after that.
C23_BatchBeforeSessionEnd ==
    [][/\ \A throws \in BOOLEAN :
             sendSessionEnd(throws) =>
                 /\ ~connected => (reqs' = reqs /\ messageId' = messageId
                                   /\ eventBuffer' = eventBuffer)
                 /\ (connected /\ Len(eventBuffer) > 0) =>
                        /\ ~PostsForSessionEnd("SESSION_END")
                        /\ SendOutcome(throws) = "posted" =>
                               \E n \in (DOMAIN reqs') \ (DOMAIN reqs) :
                                   /\ reqs'[n].type = "LOG_BATCH"
                                   /\ reqs'[n].events = eventBuffer
       /\ PostsForSessionEnd("SESSION_END") =>
             \/ \E throws \in BOOLEAN : sendSessionEnd(throws) /\ Len(eventBuffer) = 0
             \/ \E n \in (DOMAIN reqs) \ (DOMAIN reqs') :
                   reqs[n].type = "LOG_BATCH" /\ reqs[n].caller = "sendSessionEnd"
       /\ PostsForSessionEnd("LOG_BATCH") => \E throws \in BOOLEAN : sendSessionEnd(throws)]_vars
\* sendSessionEnd() has posted the buffered event 1 as a LOG_BATCH and waits
\* for the response before it sends SESSION_END
C23_Witness ==
    /\ sessionEnds = 1
    /\ \E n \in DOMAIN reqs :
          /\ reqs[n].type = "LOG_BATCH"
          /\ reqs[n].caller = "sendSessionEnd"
          /\ reqs[n].events = <<1>>
    /\ \A n \in DOMAIN reqs : reqs[n].type # "SESSION_END"

\* C24: no promise returned by connect(), init(), log(), flushBuffer(),
\* sendSessionStart() or sendSessionEnd() has rejected, whatever failed
\* (connectNative() throwing, a request timing out, postMessage() throwing, the
\* port disconnecting); connect() settles with a boolean and log() with the
\* event, however the request they await settles.
C24_NothingRejectsPastBoundary ==
    /\ rejected = {}
    /\ \A outcome \in {"resolved", "rejected"} :
          /\ logResult(outcome) = "event"
          /\ \A pong \in BOOLEAN : connectResult(outcome, pong) \in {"true", "false"}
\* a LOG_EVENT request has timed out, the port has disconnected, flushBuffer()
\* and sendSessionEnd() have been called, and nothing has rejected
C24_Witness ==
    /\ rejected = {}
    /\ timedOut # {}
    /\ connects = 1
    /\ live = {}
    /\ sessionEnds = 1
    /\ flushBuffers = 1
    /\ DOMAIN reqs = {}

\* C29: a request is pending only when sendMessage() has posted it; while it
\* is pending its callback is in the callbacks map under its _id, and no other
\* entry is in the map; a request that has settled does not become pending
\* again; a response whose _id has no entry in the map changes nothing but the
\* inbox; and every pending request settles after some time.
C29_SettlesOnce ==
    /\ [][/\ DOMAIN callbacks' = {reqs'[n].id : n \in DOMAIN reqs'}
          /\ \A n \in DOMAIN reqs' : callbacks'[reqs'[n].id] = n
          /\ sent' = sent => (DOMAIN reqs') \subseteq (DOMAIN reqs)
          /\ \A n \in 1..sent : n \notin DOMAIN reqs => n \notin DOMAIN reqs'
          /\ \A m \in inbox, throws \in BOOLEAN :
                (handleMessage(m, throws) /\ m.id \notin DOMAIN callbacks) =>
                    UNCHANGED <<reqs, callbacks, connected, eventBuffer, messageId,
                                reconnectAttempts, rejected>>]_vars
    /\ \A n \in 1..MaxSent : (n \in DOMAIN reqs) ~> (n \notin DOMAIN reqs)

\* all requests have settled, one LOG_EVENT request by its timeout and one
\* sendMessage() call by a postMessage() that threw, and the map is empty
C29_Witness ==
    /\ messageId > sent
    /\ timedOut # {}
    /\ DOMAIN reqs = {}
    /\ DOMAIN callbacks = {}

\* C30: eventBuffer holds the buffered events in log() call order, so that
\* slice(-500), which keeps the end of the array, drops the events of the
\* earliest calls: every entry is the event of an earlier log() call than the
\* entries after it.
C30_BufferInCallOrder ==
    \A i, j \in 1..Len(eventBuffer) : i < j => eventBuffer[i] < eventBuffer[j]

\* C31: connected becomes true only in the step that handles a response with
\* pong true to a pending PING request; a PING request that settles in any
\* other way (a response without pong, its timeout) leaves connected false, and
\* so does a connect() in which connectNative() throws; connect() resolves to
\* false in all those cases.
C31_ConnectedOnlyAfterPong ==
    /\ [][/\ (connected' /\ ~connected) =>
                \E m \in inbox, throws \in BOOLEAN :
                    /\ handleMessage(m, throws)
                    /\ m.pong
                    /\ m.id \in DOMAIN callbacks
                    /\ callbacks[m.id] \in Settled
                    /\ reqs[callbacks[m.id]].type = "PING"
          /\ \A n \in Settled :
                reqs[n].type = "PING" =>
                    (connected' <=> \E m \in inbox, throws \in BOOLEAN :
                                       /\ handleMessage(m, throws)
                                       /\ m.id = reqs[n].id
                                       /\ m.pong)
          /\ (connects' # connects /\ sent' = sent) => ~connected']_vars
    /\ \A pong \in BOOLEAN : connectResult("rejected", pong) = "false"
    /\ connectResult("resolved", FALSE) = "false"
\* the second connect() has been answered with pong on its port and the logger
\* is connected, after a first connect() that failed or whose port has
\* disconnected
C31_Witness ==
    /\ connected
    /\ connects = 2
    /\ port = 2
    /\ live = {2}
    /\ reconnectAttempts = 0

\* C32: a step in which postMessage() throws inside sendMessage() while the
\* logger is connected (an id is taken and no request is posted) does what
\* handleDisconnect() does: connected becomes false, port becomes null and,
\* below the limit, a reconnect attempt is counted and scheduled.
C32_SendErrorDisconnects ==
    [][(connected /\ messageId' # messageId /\ sent' = sent) =>
          /\ ~connected'
          /\ port' = 0
          /\ reconnectAttempts < maxReconnectAttempts =>
                /\ reconnectAttempts' = reconnectAttempts + 1
                /\ reconnectTimers' = reconnectTimers + 1]_vars

\* C34: the body of init() is not entered while an earlier invocation of it is
\* still running: no call reaches openDatabase() while another call is at
\* openDatabase(), loadConfig() or calculateBufferSize().
InitPcs == {"init_open", "init_load", "init_calc"}
C34_InitBodyRunsOnce ==
    [][\A p \in Procs :
          (task[p].pc # "init_open" /\ task'[p].pc = "init_open") =>
              \A q \in Procs \ {p} : task[q].pc \notin InitPcs]_vars

\* C36: the text a flush hands to the download has one line per event of the
\* snapshot, in snapshot order, with one newline between each two lines and
\* none at the end: for a snapshot of n events it is n lines and n-1
\* separators, line i is the JSON text of event i, and no two lines are the
\* same event.
C36_OneLinePerEvent ==
    \A p \in Procs :
        task[p].pc = "fl_download" =>
            LET snapshot == task[p].snapshot
                n == Len(snapshot)
                payload == jsonl(snapshot)
            IN  /\ n >= 1
                /\ Len(payload) = 2 * n - 1
                /\ \A i \in 1..n : /\ payload[2 * i - 1] = JSONstringify(snapshot[i])
                                   /\ payload[2 * i - 1] # "\n"
                /\ \A i \in 1..(n - 1) : payload[2 * i] = "\n"
                /\ \A i, j \in 1..n : i # j => payload[2 * i - 1] # payload[2 * j - 1]
\* a flush is downloading a snapshot of two events
C36_Witness ==
    \E p \in Procs : task[p].pc = "fl_download" /\ Len(task[p].snapshot) = 2

\* C39: the step in which a LOG_BATCH request settles removes from eventBuffer
\* no event other than those the batch carried, and when the request is
\* rejected by its timeout it leaves eventBuffer as it is.
C39_FlushRemovesOnlyBatch ==
    [][\A n \in Settled :
          reqs[n].type = "LOG_BATCH" =>
              /\ \A e \in Range(eventBuffer) \ Range(reqs[n].events) :
                    e \in Range(eventBuffer')
              /\ (\E throws \in BOOLEAN : Timeout(n, throws)) => eventBuffer' = eventBuffer]_vars

\* C40: while the logger is connected, this.port is a port object (not null)
\* on which onDisconnect has not fired.
C40_ConnectedHasLivePort == connected => (port # 0 /\ port \in live)

\* C38: connected changes from true to false only in handleDisconnect() of the
\* port that is this.port; the settling of a request that was posted on
\* another port does not change it.
C38_StaleHandshakeIgnored ==
    [][(connected /\ ~connected') => handleDisconnect(port)]_vars

\* C37: the connected field of the stats that getStats() returns equals
\* this.connected, the value isConnected() returns, at the time of the return:
\* when the GET_STATUS request it awaited settles, when sendMessage() rejects
\* at once, and when the logger is not connected.
C37_StatsReportConnectivity ==
    [][/\ \A n \in Settled : reqs[n].type = "GET_STATUS" => lastStats' = {connected'}
       /\ (getStatsCalls' # getStatsCalls /\ sent' = sent) => lastStats' = {connected'}]_vars

\* C33: when no call is running (every saveConfig() write has completed), the
\* persisted config record equals the in-memory config in all four fields, or
\* nothing is persisted and the config is the one the constructor made.
DefaultConfig ==
    [outputDir |-> DEFAULT_OUTPUT_DIR, autoFlush |-> TRUE, fileSequence |-> 1,
     currentPartition |-> NULL]
C33_ConfigPersistedAfterMutation ==
    Quiescent => \/ configStore = {config}
                 \/ configStore = {} /\ config = DefaultConfig

\* C35: the alarm comes into being only in a step that leaves config.autoFlush
\* true (init() or setAutoFlush(true)), and once a setAutoFlush(false) call
\* has completed there is no alarm, so that no hourly flush can start, until
\* setAutoFlush(true) is called.
C35_NoAlarmWhileDisabled ==
    /\ [][(alarm' /\ ~alarm) => config'.autoFlush]_vars
    /\ [](lastSetAutoFlush = "false" => ~alarm)
====
